---- MODULE Spec2Model ----
(***************************************************************************)
(* bluesky-likes (src/index.ts): the poll scheduler (main, shutdown) and   *)
(* the delivery pipeline (pollFeed) as a state machine.                    *)
(*                                                                         *)
(* One step of the model is one turn of the Node.js event loop: the        *)
(* callback that a network reply, a timer or a signal triggers, together   *)
(* with every promise continuation (microtask) it makes runnable.  The     *)
(* suspension points of pollFeed are its awaits; pc[c] names the call the  *)
(* c-th invocation of pollFeed is waiting on.                              *)
(*                                                                         *)
(* What the collaborators do:                                              *)
(*  - the feed source answers a page request with a page or an error, a    *)
(*    thread request with a thread or an error;                            *)
(*  - the downstream endpoint answers with a status, or the fetch rejects; *)
(*  - the redis client answers every command while it is connected; after  *)
(*    redis.disconnect() it rejects every command that is outstanding or   *)
(*    issued later ("Connection is closed");                               *)
(*  - a rejection of main()'s promise is handled nowhere, which ends the   *)
(*    process (Node 15 and later; the image is built FROM node:latest).    *)
(*                                                                         *)
(* Spec is that state machine.  PageSpec follows the page loop of pollFeed *)
(* alone, with pages of the real size and their cursors.  FnSpec applies   *)
(* the pure functions (transformSingle and the payload built from its      *)
(* result, processThread) to feed items and threads of bounded shape.      *)
(***************************************************************************)
EXTENDS Integers, Sequences, FiniteSets, TLC

\* Bounds of the model.
MaxCycles == 2      \* pollFeed invocations over the whole behaviour
MaxFeed == 2        \* items the feed source returns to one cycle
MaxPages == 4       \* page replies followed by PageSpec
MaxReplies == 3     \* reply nodes of a thread

\* ------------------------------------------------------------------ data

PostType == "app.bsky.feed.post"

\* at://<did>/<type>/<rkey>, as transformSingle splits it (did left out).
U1 == [type |-> PostType, rkey |-> "a"]
U2 == [type |-> PostType, rkey |-> "b"]
UGen == [type |-> "app.bsky.feed.generator", rkey |-> "g"]

URIs == {U1, U2, UGen}

\* Raw feed items, reduced to the fields pollFeed's control flow reads.
Items ==
  { [uri |-> U1, replyCount |-> 2],
    [uri |-> U1, replyCount |-> 250],
    [uri |-> U2, replyCount |-> 0],
    [uri |-> UGen, replyCount |-> 0] }

\* HTTP statuses of the downstream endpoint.
Statuses == {204, 200, 500}

Cycles == 1 .. MaxCycles

\* The pages the feed source may answer with when n more items fit the bound.
Pages(n) == UNION { [1 .. k -> Items] : k \in 0 .. n }

\* JavaScript's undefined.
Undefined == "undefined"

\* The cursors the feed source hands out with a page (it may hand out none).
Cursors == {"c1", "c2", Undefined}

\* The fetch loop has not been entered; no function has been applied.
NoPager == [pc |-> "none"]
NoCall == [fn |-> "none"]

\* pollFeedHandle: 0 stands for undefined and null (both falsy, both a no-op
\* for clearTimeout); c > 0 is the Timeout object made after cycle c.
NoHandle == 0

VARIABLES
  seen,            \* the redis set REDIS_SET_NAME (durable)
  redisUp,         \* the redis client of this process is connected
  noProcessing,    \* process.env.BSKYHLTE_NO_PROCESSING is set
  mainPc,          \* main(): "idle", "awaiting", "stopped", "crashed"
  pollFeedHandle,  \* the global of that name
  resolver,        \* the global of that name: the promise it resolves (0: no-op)
  cur,             \* number of loop iterations (pollFeed invocations) so far
  pc,              \* pc[c]: where invocation c of pollFeed is
  allData,         \* allData[c]: pollFeed's accumulator
  xformed,         \* xformed[c]: the transformed feed being iterated (kept,
                   \* like log[c], until the next invocation begins)
  log,             \* history: log[c], what happened to each entry that
                   \* invocation c finished with (kept until the next begins)
  rejected,        \* history: URIs that got a non-204 response in an earlier cycle
  timer,           \* timer[c]: the setTimeout made when invocation c resolved
  prom,            \* prom[c]: the promise main awaits in iteration c
  ok204,           \* history: 204 responses received, per URI
  signalled,       \* history: shutdown() ran in this process
  pager,           \* pollFeed's fetch loop on its own, page by page (PageSpec)
  call             \* one application of a pure function of index.ts (FnSpec)

\* The variables of the scheduler and the pipeline.
pollVars == << seen, redisUp, noProcessing, mainPc, pollFeedHandle, resolver, cur,
               pc, allData, xformed, log, rejected, timer, prom, ok204, signalled >>

vars == << pollVars, pager, call >>

\* The state as one record, so that the code's functions compose as they do
\* in the source.
St ==
  [ seen |-> seen, redisUp |-> redisUp, noProcessing |-> noProcessing,
    mainPc |-> mainPc, pollFeedHandle |-> pollFeedHandle, resolver |-> resolver,
    cur |-> cur, pc |-> pc, allData |-> allData, xformed |-> xformed,
    log |-> log, rejected |-> rejected, timer |-> timer, prom |-> prom, ok204 |-> ok204,
    signalled |-> signalled ]

\* The next state is s (and the loop counter stays within the bound).
Becomes(s) ==
  /\ s.cur <= MaxCycles
  /\ seen' = s.seen
  /\ redisUp' = s.redisUp
  /\ noProcessing' = s.noProcessing
  /\ mainPc' = s.mainPc
  /\ pollFeedHandle' = s.pollFeedHandle
  /\ resolver' = s.resolver
  /\ cur' = s.cur
  /\ pc' = s.pc
  /\ allData' = s.allData
  /\ xformed' = s.xformed
  /\ log' = s.log
  /\ rejected' = s.rejected
  /\ timer' = s.timer
  /\ prom' = s.prom
  /\ ok204' = s.ok204
  /\ UNCHANGED << pager, call >>
  /\ signalled' = s.signalled

InFlight == {"fetch", "sismember", "thread", "writeFile", "deliver", "sadd"}

\* The URIs some entry of the logs l got a non-204 response for.
RejectedIn(l) ==
  { u \in URIs : \E c \in Cycles : \E i \in 1 .. Len(l[c]) :
                   l[c][i] = [uri |-> u, ev |-> "rej"] }

\* ------------------------------------------------------- main's do-loop

\* One iteration of the do-loop begins: a new promise, resolver bound to it,
\* pollFeed called (it runs up to its first await, the first page request).
beginIteration(s) ==
  LET c == s.cur + 1 IN
  IF c \in Cycles
    THEN [s EXCEPT !.cur = c, !.resolver = c, !.mainPc = "awaiting",
                   !.prom = [@ EXCEPT ![c] = "pending"],
                   !.pc = [@ EXCEPT ![c] = "fetch"],
                   !.log = [k \in Cycles |-> << >>],
                   !.xformed = [k \in Cycles |-> << >>],
                   !.rejected = @ \cup RejectedIn(s.log)]
    ELSE [s EXCEPT !.cur = c]     \* beyond the bound: Becomes refuses it

\* Mutant of transformFeed: items that are no feed posts are left out.
transformFeedSkips(data) ==
  [ok |-> TRUE, value |-> SelectSeq(data, LAMBDA item : item.uri.type = PostType)]

\* Mutant of loopTest: the loop goes on whatever pollFeedHandle is.
loopTestAlways(s) == beginIteration(s)

\* The awaited promise resolved: `while (pollFeedHandle)`.
loopTest(s) ==
  IF s.pollFeedHandle # NoHandle
    THEN beginIteration(s)
    ELSE [s EXCEPT !.mainPc = "stopped"]

\* resolve of promise p (settling a settled promise does nothing).
resolve(s, p) ==
  IF p # 0 /\ s.prom[p] = "pending"
    THEN loopTest([s EXCEPT !.prom = [@ EXCEPT ![p] = "resolved"]])
    ELSE s

\* reject of promise p: the await in main throws, main() rejects, and nothing
\* handles that rejection: the process dies.
reject(s, p) ==
  IF s.prom[p] = "pending"
    THEN [s EXCEPT !.prom = [@ EXCEPT ![p] = "rejected"], !.mainPc = "crashed"]
    ELSE s

clearTimeout(s, h) ==
  IF h # NoHandle /\ s.timer[h] = "pending"
    THEN [s EXCEPT !.timer = [@ EXCEPT ![h] = "cleared"]]
    ELSE s

\* Mutant of shutdown: resolver() is called without pollFeedHandle = null.
shutdownKeepsHandle(s) ==
  LET s1 == [s EXCEPT !.redisUp = FALSE, !.signalled = TRUE]
      s2 == clearTimeout(s1, s1.pollFeedHandle)
  IN  resolve(s2, s2.resolver)

shutdown(s) ==
  LET s1 == [s EXCEPT !.redisUp = FALSE, !.signalled = TRUE]
      s2 == clearTimeout(s1, s1.pollFeedHandle)
      s3 == [s2 EXCEPT !.pollFeedHandle = NoHandle]
  IN  resolve(s3, s3.resolver)

\* pollFeed(...).then(setTimeout).then(handle).then(NO_PROCESSING check)
onFulfilled(s, c) ==
  LET s1 == [s EXCEPT !.pc = [@ EXCEPT ![c] = "done"],
                      !.allData = [@ EXCEPT ![c] = << >>],
                      !.timer = [@ EXCEPT ![c] = "pending"],
                      !.pollFeedHandle = c]
  IN  IF s1.noProcessing THEN shutdown(s1) ELSE s1

\* pollFeed(...).catch(error => reject(error))
onRejected(s, c) ==
  reject([s EXCEPT !.pc = [@ EXCEPT ![c] = "failed"],
                   !.allData = [@ EXCEPT ![c] = << >>]], c)

\* ------------------------------------------------------------- pollFeed

\* transformSingle's guard: the second path segment of the URI.
isFeedPost(item) == item.uri.type = PostType

\* transformFeed: allData.map(transformSingle); throws on the first item that
\* is no feed post.
transformFeed(data) ==
  IF \A i \in 1 .. Len(data) : isFeedPost(data[i])
    THEN [ok |-> TRUE, value |-> data]
    ELSE [ok |-> FALSE, value |-> << >>]

\* `for (const entry of xformed)`: the next entry's sismember, or the end.
nextEntry(s, c) ==
  IF Len(s.log[c]) >= Len(s.xformed[c])
    THEN onFulfilled(s, c)
    ELSE [s EXCEPT !.pc = [@ EXCEPT ![c] = "sismember"]]

logged(s, c, u, ev) ==
  [s EXCEPT !.log = [@ EXCEPT ![c] = Append(@, [uri |-> u, ev |-> ev])]]

entryOf(s, c) == s.xformed[c][Len(s.log[c]) + 1]

\* `limit: 100`, the page size pollFeed asks for.
PageLimit == 100

\* agent.getActorLikes({ actor, limit: 100, cursor })
likesRequest(cursor) == [limit |-> PageLimit, cursor |-> cursor]

\* Mutant of isLastPage: a short page ends the loop too.
isShortPage(data) == Len(data.feed) < PageLimit

\* `if (!data.feed.length) break;`
isLastPage(data) == Len(data.feed) = 0

\* Mutant of accumulate: the cursor is not carried over.
accumulateSameCursor(loc, data) ==
  [allData |-> loc.allData \o data.feed, cursor |-> loc.cursor]

\* `allData = allData.concat(data.feed); cursor = data.cursor;`
accumulate(loc, data) ==
  [allData |-> loc.allData \o data.feed, cursor |-> data.cursor]

\* A reply to getActorLikes: an error, or a page.  (The cursor is left out
\* of the pipeline's state; PageSpec below follows it.)
likesReply(s, c, r) ==
  IF ~r.ok THEN onRejected(s, c)
  ELSE IF isLastPage(r)
    THEN LET x == transformFeed(s.allData[c]) IN
         IF ~x.ok THEN onRejected(s, c)
         ELSE nextEntry([s EXCEPT !.xformed = [@ EXCEPT ![c] = x.value],
                                  !.allData = [@ EXCEPT ![c] = << >>]], c)
    ELSE [s EXCEPT !.allData =
            [@ EXCEPT ![c] = accumulate([allData |-> @, cursor |-> Undefined],
                                        r).allData]]

\* Mutant of notSeen: the membership test is dropped.
notSeenDropped(s, u) == TRUE

\* `if (!(await redis.sismember(REDIS_SET_NAME, entry.uri)))`
notSeen(s, u) == u \notin s.seen

\* `if (process.env.BSKYHLTE_NO_PROCESSING) continue;`, else hlteFetch is
\* called.
deliverOrSkip(s, c) ==
  IF s.noProcessing
    THEN nextEntry(logged(s, c, entryOf(s, c).uri, "dry"), c)
    ELSE [s EXCEPT !.pc = [@ EXCEPT ![c] = "deliver"]]

\* The reply to sismember: the body of the loop up to its next await.
sismemberReply(s, c) ==
  LET e == entryOf(s, c) IN
  IF ~s.redisUp THEN onRejected(s, c)
  ELSE IF notSeen(s, e.uri)
    THEN IF e.replyCount > 0
           THEN [s EXCEPT !.pc = [@ EXCEPT ![c] = "thread"]]
           ELSE deliverOrSkip(s, c)
    ELSE nextEntry(logged(s, c, e.uri, "skip"), c)

\* BSKYHLTE_THREAD_MAX_FETCH_DEPTH, by default.
THREAD_MAX_FETCH_DEPTH == 100

\* Math.min
min(a, b) == IF a <= b THEN a ELSE b

\* Mutant of threadRequest: the depth is the reply count, uncapped.
threadRequestUncapped(entry) == [uri |-> entry.uri, depth |-> entry.replyCount]

\* agent.getPostThread({ uri, depth: Math.min(replyCount,
\* THREAD_MAX_FETCH_DEPTH) })
threadRequest(entry) ==
  [uri |-> entry.uri, depth |-> min(entry.replyCount, THREAD_MAX_FETCH_DEPTH)]

\* Mutant of onThreadError: the error is swallowed and the loop goes on
\* with the next entry.
onThreadErrorContinues(s, c) == nextEntry(s, c)

\* getPostThread rejected: nothing catches it in pollFeed.
onThreadError(s, c) == onRejected(s, c)

\* The reply to getPostThread; with NO_PROCESSING set the thread data is
\* then written to a file, which is awaited.  (A failed thread fetch is
\* recorded in the log, whatever the code makes of it.)
threadReply(s, c, ok) ==
  IF ~ok THEN onThreadError(logged(s, c, entryOf(s, c).uri, "thr"), c)
  ELSE IF s.noProcessing
    THEN [s EXCEPT !.pc = [@ EXCEPT ![c] = "writeFile"]]
    ELSE deliverOrSkip(s, c)

\* The end of that writeFile.
writeFileReply(s, c, ok) ==
  IF ok THEN deliverOrSkip(s, c) ELSE onRejected(s, c)

\* Mutant of isFailure: only error statuses count as failures.
isFailureErrorsOnly(status) == status >= 400

\* `if (response.status !== 204)`
isFailure(status) == status # 204

\* Mutant of onBadStatus: a bad status throws.
onBadStatusThrows(s, c) == onRejected(s, c)

\* The body of that if: log and `continue`.
onBadStatus(s, c) == nextEntry(s, c)

\* Mutant of sadd: the add is lost.
saddLost(s, u) == s

\* redis.sadd(REDIS_SET_NAME, entry.uri), applied by the server.
sadd(s, u) == [s EXCEPT !.seen = @ \cup {u}]

\* The reply to hlteFetch: status 0 stands for a rejected fetch.
hlteReply(s, c, status) ==
  LET u == entryOf(s, c).uri
      \* the histories record the response, whatever the code makes of it
      s1 == IF status = 204
              THEN logged([s EXCEPT !.ok204 = [@ EXCEPT ![u] = @ + 1]], c, u, "ok")
              ELSE logged(s, c, u, "rej")
  IN
  IF status = 0 THEN onRejected(logged(s, c, u, "err"), c)
  ELSE IF isFailure(status)
    THEN onBadStatus(s1, c)
    ELSE IF s1.redisUp
      THEN [s1 EXCEPT !.pc = [@ EXCEPT ![c] = "sadd"]]
      ELSE onRejected(s1, c)

\* The reply to sadd.  When the client was disconnected after the command was
\* written, the server may or may not have applied it; the client rejects.
saddReply(s, c, applied) ==
  LET u == s.log[c][Len(s.log[c])].uri
      added == sadd(s, u)
  IN
  IF s.redisUp THEN nextEntry(added, c)
  ELSE onRejected(IF applied THEN added ELSE s, c)

\* --------------------------------------------------------------- actions

Init ==
  /\ seen = {}
  /\ redisUp = TRUE
  /\ noProcessing \in BOOLEAN
  /\ mainPc = "idle"
  /\ pollFeedHandle = NoHandle
  /\ resolver = 0
  /\ cur = 0
  /\ pc = [c \in Cycles |-> "none"]
  /\ allData = [c \in Cycles |-> << >>]
  /\ xformed = [c \in Cycles |-> << >>]
  /\ log = [c \in Cycles |-> << >>]
  /\ rejected = {}
  /\ timer = [c \in Cycles |-> "unset"]
  /\ prom = [c \in Cycles |-> "none"]
  /\ ok204 = [u \in URIs |-> 0]
  /\ signalled = FALSE
  /\ pager = NoPager
  /\ call = NoCall

\* main() up to the loop: login succeeds, is rate limited, or fails otherwise.
main(s, login) ==
  CASE login = "ok" -> beginIteration(s)
    [] login = "rateLimited" -> [shutdown(s) EXCEPT !.mainPc = "stopped"]
    [] OTHER -> [s EXCEPT !.mainPc = "crashed"]

Main ==
  /\ mainPc = "idle"
  /\ \E login \in {"ok", "rateLimited", "error"} : Becomes(main(St, login))

GetActorLikesReply ==
  \E c \in Cycles :
    /\ pc[c] = "fetch"
    /\ \/ Becomes(likesReply(St, c, [ok |-> FALSE, feed |-> << >>,
                                      cursor |-> Undefined]))
       \/ \E p \in Pages(MaxFeed - Len(allData[c])) :
            Becomes(likesReply(St, c, [ok |-> TRUE, feed |-> p,
                                        cursor |-> Undefined]))

SismemberReply ==
  \E c \in Cycles :
    /\ pc[c] = "sismember"
    /\ Becomes(sismemberReply(St, c))

GetPostThreadReply ==
  \E c \in Cycles :
    /\ pc[c] = "thread"
    /\ \E ok \in BOOLEAN : Becomes(threadReply(St, c, ok))

WriteFileReply ==
  \E c \in Cycles :
    /\ pc[c] = "writeFile"
    /\ \E ok \in BOOLEAN : Becomes(writeFileReply(St, c, ok))

HlteFetchReply ==
  \E c \in Cycles :
    /\ pc[c] = "deliver"
    /\ \E status \in Statuses \cup {0} : Becomes(hlteReply(St, c, status))

SaddReply ==
  \E c \in Cycles :
    /\ pc[c] = "sadd"
    /\ \E applied \in BOOLEAN : Becomes(saddReply(St, c, applied))

\* () => resolve(true), POLLING_FREQ_SECONDS after pollFeed resolved.
TimerFire ==
  \E c \in Cycles :
    /\ timer[c] = "pending"
    /\ mainPc # "crashed"
    /\ Becomes(resolve([St EXCEPT !.timer = [@ EXCEPT ![c] = "fired"]], c))

\* The process has nothing left to run (or died): no cycle in flight, no
\* timer, main over.
Exited ==
  /\ mainPc \in {"stopped", "crashed"}
  /\ \A c \in Cycles : pc[c] \notin InFlight /\ timer[c] # "pending"

\* SIGINT, SIGHUP or SIGTERM, once main has registered shutdown for them.
Signal ==
  /\ mainPc \in {"awaiting", "stopped"}
  /\ ~Exited
  /\ Becomes(shutdown(St))

\* The process is started again, under whatever environment; the redis set
\* is what it was.
Restart ==
  /\ Exited
  /\ \E np \in BOOLEAN :
     Becomes([St EXCEPT !.mainPc = "idle", !.redisUp = TRUE,
                        !.noProcessing = np,
                        !.pollFeedHandle = NoHandle, !.resolver = 0,
                        !.pc = [c \in Cycles |-> "none"],
                        !.timer = [c \in Cycles |-> "unset"],
                        !.prom = [c \in Cycles |-> "none"],
                        !.signalled = FALSE])

Next ==
  \/ Main
  \/ GetActorLikesReply
  \/ SismemberReply
  \/ GetPostThreadReply
  \/ WriteFileReply
  \/ HlteFetchReply
  \/ SaddReply
  \/ TimerFire
  \/ Signal
  \/ Restart

Spec == Init /\ [][Next]_vars

\* ------------------------------------------- the fetch loop, page by page

\* PageSpec follows the `while (true)` of pollFeed alone, with pages of the
\* real size: pager.sent are the requests issued so far, pager.got the
\* replies received (sizes and cursors), pager.allData and pager.cursor the
\* loop's locals.

\* The page sizes the feed source answers with: empty, short, full.
PageSizes == {0, 42, PageLimit}

\* The items of the k-th page, of size n.
PageFeed(k, n) == [i \in 1 .. n |-> << k, i >>]

\* pollFeed is called: its locals, and the first page request.
pollFeedStart ==
  [pc |-> "fetch", allData |-> << >>, cursor |-> Undefined,
   sent |-> << likesRequest(Undefined) >>, got |-> << >>]

\* One turn of the loop: the reply to the outstanding request arrives.
pageReply(p, r) ==
  LET g == [p EXCEPT !.got = Append(@, [ok |-> r.ok, n |-> Len(r.feed),
                                        cursor |-> r.cursor])]
  IN  IF ~r.ok THEN [g EXCEPT !.pc = "failed"]
      ELSE IF isLastPage(r) THEN [g EXCEPT !.pc = "done"]
      ELSE LET loc == accumulate(p, r) IN
           [g EXCEPT !.allData = loc.allData, !.cursor = loc.cursor,
                     !.sent = Append(@, likesRequest(loc.cursor))]

PollFeedStart ==
  /\ pager = NoPager
  /\ pager' = pollFeedStart
  /\ UNCHANGED << pollVars, call >>

PageReply ==
  /\ pager.pc = "fetch"
  /\ Len(pager.got) < MaxPages
  /\ \/ pager' = pageReply(pager, [ok |-> FALSE, feed |-> << >>,
                                    cursor |-> Undefined])
     \/ \E n \in PageSizes : \E k \in Cursors :
          pager' = pageReply(pager, [ok |-> TRUE,
                                     feed |-> PageFeed(Len(pager.got) + 1, n),
                                     cursor |-> k])
  /\ UNCHANGED << pollVars, call >>

PageNext == PollFeedStart \/ PageReply

PageSpec == Init /\ [][PageNext]_vars

\* ------------------------------------------------- the pure functions

\* A value that may be undefined is a sequence of length at most one:
\* << >> is undefined, << v >> is v.  opt(o, f) is JavaScript's `o?.f`: it
\* is undefined when o is, or when o has no property f.
opt(o, f) ==
  IF o = << >> THEN << >>
  ELSE IF f \in DOMAIN o[1] THEN << o[1][f] >> ELSE << >>

\* a.createdAt.localeCompare(b.createdAt) <= 0.  A timestamp t of the model
\* stands for an ISO-8601 string; the strings compare as the numbers do.
notAfter(a, b) == a.createdAt <= b.createdAt

\* Array.prototype.sort with that comparison (a stable sort): x inserted
\* behind the elements of the sorted s that are not after it.
RECURSIVE insertSorted(_, _)
insertSorted(s, x) ==
  IF s = << >> THEN << x >>
  ELSE IF notAfter(s[1], x) THEN << s[1] >> \o insertSorted(Tail(s), x)
  ELSE << x >> \o s

RECURSIVE sortByCreatedAt(_)
sortByCreatedAt(s) ==
  IF s = << >> THEN << >>
  ELSE insertSorted(sortByCreatedAt(SubSeq(s, 1, Len(s) - 1)), s[Len(s)])

\* repliesFromAuthor: the filter compares `fPost?.author?.did` with
\* `post?.author?.did`; the loop collects aChild.post.record and recurses
\* into aChild when it has replies; the result is sorted.
RECURSIVE repliesFromAuthor(_)
RECURSIVE collectReplies(_, _)
collectReplies(authorsChildren, returnReplies) ==
  IF authorsChildren = << >> THEN returnReplies
  ELSE LET aChild == authorsChildren[1]
           r1 == Append(returnReplies, aChild.post.record)
           r2 == IF Len(aChild.replies) > 0
                   THEN r1 \o repliesFromAuthor(aChild)
                   ELSE r1
       IN  collectReplies(Tail(authorsChildren), r2)

repliesFromAuthor(postObj) ==
  LET post == postObj.post
      replies == postObj.replies
      sameAuthor(fPost) ==
        opt(opt(<< fPost >>, "author"), "did") = opt(opt(<< post >>, "author"), "did")
      authorsChildren == SelectSeq(replies, sameAuthor)
  IN  sortByCreatedAt(collectReplies(authorsChildren, << >>))

processThread(threadDataObj) == repliesFromAuthor(threadDataObj.thread)

\* The threads the feed source answers with.  A thread of n reply nodes is
\* given by the parent of each (0 is the root post), its author and the
\* createdAt of its record; a node is older than its replies in the array
\* order only.  As the source reads them (`const { post, replies } =
\* postObj`, `aChild.post.record`), a node is { post, replies } and the
\* author sits in the post.
Dids == {"did:op", "did:other"}
Times == {1, 2, 3}

ThreadShapes ==
  UNION { [parent : { f \in [1 .. n -> 0 .. n] : \A i \in 1 .. n : f[i] < i },
           did : [0 .. n -> Dids],
           at : [1 .. n -> Times]] : n \in 0 .. MaxReplies }

RECURSIVE threadNode(_, _)
RECURSIVE threadReplies(_, _, _)
threadReplies(T, i, j) ==
  IF j \notin DOMAIN T.parent THEN << >>
  ELSE (IF T.parent[j] = i THEN << threadNode(T, j) >> ELSE << >>)
       \o threadReplies(T, i, j + 1)

threadNode(T, i) ==
  [post |-> [author |-> [did |-> T.did[i]],
             record |-> IF i = 0 THEN [text |-> 0, createdAt |-> 0]
                                 ELSE [text |-> i, createdAt |-> T.at[i]]],
   replies |-> threadReplies(T, i, i + 1)]

\* ---- transformSingle

\* A string the code builds is the sequence of its parts; the empty string
\* is << >>.

\* `a ?? b`
coalesce(a, b) == IF a # << >> THEN a ELSE b

\* images.map(({ fullsize }) => fullsize)
fullsizes(images) == [i \in 1 .. Len(images) |-> images[i].fullsize]

\* embed.record.embeds.reduce((a, { images }) =>
\*   [...a, ...(images?.map(({ fullsize }) => fullsize) ?? [])], [])
RECURSIVE reduceEmbeds(_, _)
reduceEmbeds(embeds, a) ==
  IF embeds = << >> THEN a
  ELSE LET images == opt(<< embeds[1] >>, "images") IN
       reduceEmbeds(Tail(embeds),
                    a \o (IF images = << >> THEN << >> ELSE fullsizes(images[1])))

RwmType == "app.bsky.embed.recordWithMedia"
RecordType == "app.bsky.embed.record"
ImagesType == "app.bsky.embed.images"
ExternalType == "app.bsky.embed.external"
VideoType == "app.bsky.embed.video"
View(type) == << type, "#view" >>

\* The locals of transformSingle as it enters `if (!embed?.record?.notFound)`.
noEmbeds ==
  [thrown |-> FALSE, embedImages |-> << << >> >>, embedText |-> << >>,
   embedRecords |-> << >>]

\* images and images#view
imagesStep(l, recEmbType, embed) ==
  IF recEmbType = << ImagesType >> /\ embed[1].type = View(ImagesType)
    THEN [l EXCEPT !.embedImages = << fullsizes(embed[1].images) >>,
                   !.embedText =
                     << << opt(embed, "text"), "Alt texts:" >>
                        \o [i \in 1 .. Len(embed[1].images) |->
                              embed[1].images[i].alt] >>]
    ELSE l

\* recordWithMedia and recordWithMedia#view: the media part
mediaStep(l, recEmbType, embed, record) ==
  IF recEmbType = << RwmType >> /\ embed[1].type = View(RwmType)
    THEN IF embed[1].media.type = View(ExternalType)
           THEN [l EXCEPT !.embedImages = << << embed[1].media.external.thumb >> >>,
                          !.embedText = << << embed[1].media.external.description >> >>]
           ELSE LET images == opt(<< embed[1].media >>, "images")
                    recImages == opt(<< record[1].embed.media >>, "images")
                IN  [l EXCEPT !.embedImages =
                                IF images = << >> THEN << >>
                                ELSE << fullsizes(images[1]) >>,
                              !.embedText =
                                IF recImages = << >> THEN << << >> >>
                                ELSE << << recImages[1][1].alt >> >>]
    ELSE l

\* record#view or recordWithMedia#view: the quoted record
quoteStep(l, recEmbType, embed) ==
  IF \/ recEmbType = << RecordType >> /\ embed[1].type = View(RecordType)
     \/ recEmbType = << RwmType >> /\ embed[1].type = View(RwmType)
    THEN LET r == << embed[1].record >>
             who == coalesce(coalesce(opt(r, "author"),
                                      opt(opt(r, "record"), "author")),
                             opt(r, "creator"))
             createdAt ==
               coalesce(opt(opt(r, "value"), "createdAt"),
                        coalesce(opt(opt(r, "record"), "createdAt"),
                                 opt(opt(opt(r, "record"), "value"), "createdAt")))
             text ==
               coalesce(coalesce(opt(opt(r, "value"), "text"),
                                 opt(opt(opt(r, "record"), "value"), "text")),
                        opt(opt(r, "record"), "description"))
             embeds == opt(r, "embeds")
         IN  IF who = << >>
               THEN [l EXCEPT !.thrown = TRUE]  \* destructuring of undefined
               ELSE [l EXCEPT
                       !.embedRecords =
                         Append(@, [text |-> text, handle |-> opt(who, "handle"),
                                    displayName |-> opt(who, "displayName"),
                                    createdAt |-> createdAt]),
                       !.embedImages =
                         IF embeds # << >> /\ Len(embeds[1]) > 0
                           THEN << reduceEmbeds(embeds[1], << >>) >>
                           ELSE @]
    ELSE l

\* external and external#view
externalStep(l, recEmbType, embed, post) ==
  IF recEmbType = << ExternalType >> /\ embed[1].type = View(ExternalType)
    THEN [l EXCEPT !.embedRecords =
            Append(@, [title |-> embed[1].external.title,
                       description |-> embed[1].external.description,
                       handle |-> << post.author.handle >>,
                       displayName |-> << post.author.displayName >>,
                       createdAt |-> << post.record.createdAt >>])]
    ELSE l

\* video and video#view
videoStep(l, recEmbType, embed) ==
  IF recEmbType = << VideoType >> /\ embed[1].type = View(VideoType)
    THEN [l EXCEPT !.embedImages = << << embed[1].thumbnail >> >>]
    ELSE l

\* `https://bsky.app/profile/${handle}/post/${urlId}`
userUrl(handle, urlId) == [profile |-> handle, post |-> urlId]

\* The guard `!embed?.record?.notFound`.
notFoundGuard(embed) ==
  LET nf == opt(opt(embed, "record"), "notFound") IN nf = << >> \/ nf = << FALSE >>

\* (The returned object also carries the raw embed, which nothing reads.)
transformSingle(item) ==
  LET post == item.post
      record == opt(<< post >>, "record")
      embed == opt(<< post >>, "embed")
      recEmbType == opt(opt(record, "embed"), "type")
  IN  IF ~isFeedPost(post) THEN [ok |-> FALSE]
      ELSE
        LET l0 == noEmbeds
            l1 == imagesStep(l0, recEmbType, embed)
            l2 == mediaStep(l1, recEmbType, embed, record)
            l3 == quoteStep(l2, recEmbType, embed)
            l4 == IF l3.thrown THEN l3 ELSE externalStep(l3, recEmbType, embed, post)
            l5 == IF l4.thrown THEN l4 ELSE videoStep(l4, recEmbType, embed)
            l == IF notFoundGuard(embed) THEN l5 ELSE l0
        IN  IF l.thrown THEN [ok |-> FALSE]
            ELSE [ok |-> TRUE,
                  value |-> [uri |-> post.uri, handle |-> post.author.handle,
                             displayName |-> post.author.displayName,
                             text |-> post.record.text,
                             embedImages |-> l.embedImages,
                             embedText |-> l.embedText,
                             embedRecords |-> l.embedRecords,
                             createdAt |-> post.record.createdAt,
                             replyCount |-> post.replyCount,
                             userUrl |-> userUrl(post.author.handle, post.uri.rkey)]]

\* ---- the payload of an entry (pollFeed's loop body up to the thread fetch)

\* The key of the entry in the redis set: entry.uri, in sismember and sadd.
seenKey(entry) == entry.uri

\* Mutant of buildPayload: the post URL stays primary, the picked image
\* becomes secondary.
buildPayloadNoSwap(entry) ==
  IF entry.embedImages # << >> /\ Len(entry.embedImages[1]) > 0
    THEN [uri |-> entry.userUrl, secondaryURI |-> entry.embedImages[1][1]]
    ELSE [uri |-> entry.userUrl]

buildPayload(entry) ==
  LET data == << entry.text, entry.handle, entry.displayName >>
      from == << << "from", entry.createdAt >> >>
      reposting == IF Len(entry.embedRecords) > 0
                     THEN << << "Reposting" >> \o entry.embedRecords >>
                     ELSE << >>
  IN  IF entry.embedImages # << >> /\ Len(entry.embedImages[1]) > 0
        THEN LET picked == entry.embedImages[1][1]
                 rest == Tail(entry.embedImages[1])
                 embedText == IF entry.embedText # << >> /\ entry.embedText[1] # << >>
                                THEN << << "Embed text" >> \o entry.embedText[1] >>
                                ELSE << >>
                 remaining == IF Len(rest) > 0
                                THEN << << "Remaining image embeds" >> \o rest >>
                                ELSE << >>
             IN  [uri |-> picked, secondaryURI |-> entry.userUrl, data |-> data,
                  annotation |-> from \o embedText \o remaining \o reposting]
        ELSE [uri |-> entry.userUrl, data |-> data,
              annotation |-> from \o reposting]

\* ---- the feed items transformSingle is applied to

Img(x) == [fullsize |-> [img |-> x], alt |-> x]

\* The images of a media part, and the embeds of a quoted post.
MediaImages == { << Img("m1") >>, << Img("m1"), Img("m2") >> }
QuotedEmbeds ==
  { << >>,
    << [type |-> View(ImagesType), images |-> << Img("q1") >>] >>,
    << [type |-> View(ImagesType), images |-> << Img("q1"), Img("q2") >>] >>,
    << [type |-> View(VideoType)],
       [type |-> View(ImagesType), images |-> << Img("q1") >>] >> }

\* What a quote points at: a post (with or without embeds), a feed
\* generator, or a record that is gone.
QuotedAuthor == [handle |-> "quoted", displayName |-> "Quoted"]
QuotedValue == [text |-> "quoted text", createdAt |-> 1]
ViewRecords ==
  { [author |-> QuotedAuthor, value |-> QuotedValue] }
    \cup { [author |-> QuotedAuthor, value |-> QuotedValue, embeds |-> e] :
             e \in QuotedEmbeds }
GeneratorView == [creator |-> QuotedAuthor, description |-> "a feed"]
ViewNotFound == [uri |-> "at://gone", notFound |-> TRUE]
Quoted == ViewRecords \cup {GeneratorView, ViewNotFound}

\* The record of a quote sits in embed.record, or one level down, in
\* embed.record.record: transformSingle reads both places.
QuoteSlots == Quoted \cup { [record |-> q] : q \in Quoted }

Medias ==
  { [type |-> View(ImagesType), images |-> m] : m \in MediaImages }
    \cup { [type |-> View(ExternalType),
            external |-> [description |-> "card", thumb |-> [img |-> "thumb"]]],
           [type |-> View(VideoType), thumbnail |-> [img |-> "poster"]] }

\* The post's own embed (record.embed) for a media part.
recMedia(media) ==
  IF "images" \in DOMAIN media
    THEN [type |-> ImagesType,
          images |-> [i \in 1 .. Len(media.images) |-> [alt |-> media.images[i].alt]]]
    ELSE [type |-> media.type[1]]

\* record.embed and the rendered embed, of matching kinds.
Embeds ==
  { [rec |-> [type |-> ImagesType],
     view |-> [type |-> View(ImagesType), images |-> m]] : m \in MediaImages }
    \cup { [rec |-> [type |-> RecordType],
            view |-> [type |-> View(RecordType), record |-> q]] : q \in Quoted }
    \cup { [rec |-> [type |-> RwmType, media |-> recMedia(m)],
            view |-> [type |-> View(RwmType), media |-> m, record |-> q]] :
             m \in Medias, q \in QuoteSlots }
    \cup { [rec |-> [type |-> ExternalType],
            view |-> [type |-> View(ExternalType),
                      external |-> [title |-> "title", description |-> "card"]]],
           [rec |-> [type |-> VideoType],
            view |-> [type |-> View(VideoType), thumbnail |-> [img |-> "poster"]]] }

Author == [handle |-> "op", displayName |-> "OP"]

RawItems ==
  { [post |-> [uri |-> u, author |-> Author, replyCount |-> 0,
               record |-> [text |-> "text", createdAt |-> 2]]] : u \in URIs }
    \cup { [post |-> [uri |-> u, author |-> Author, replyCount |-> 0,
                      record |-> [text |-> "text", createdAt |-> 2, embed |-> e.rec],
                      embed |-> e.view]] : u \in URIs, e \in Embeds }

TransformSingle ==
  /\ call = NoCall
  /\ \E item \in RawItems :
       LET x == transformSingle(item) IN
       call' = [fn |-> "transformSingle", in |-> item, out |-> x,
                key |-> IF x.ok THEN << seenKey(x.value) >> ELSE << >>,
                payload |-> IF x.ok THEN << buildPayload(x.value) >> ELSE << >>]
  /\ UNCHANGED << pollVars, pager >>

ProcessThread ==
  /\ call = NoCall
  /\ \E T \in ThreadShapes :
       call' = [fn |-> "processThread", in |-> T,
                out |-> processThread([thread |-> threadNode(T, 0)])]
  /\ UNCHANGED << pollVars, pager >>

FnNext == ProcessThread \/ TransformSingle

FnSpec == Init /\ [][FnNext]_vars

\* ---------------------------------------------------------------- claims

\* The URI of the entry invocation c is working on (pc[c] in sismember,
\* thread, deliver).
CurUri(c) == xformed[c][Len(log[c]) + 1].uri

LogIdx(c) == 1 .. Len(log[c])

\* A thread fetch or a delivery call of invocation c is outstanding.
Calling(c) == pc[c] \in {"thread", "deliver"}

\* C1 (dedup invariant): no thread fetch and no delivery call is ever
\* outstanding for an entry whose URI is in the seen-set, and such a call is
\* only ever issued by the step that handles the membership reply for that
\* entry (or, for the delivery, the thread reply of the same entry): the
\* membership check comes first.
C1_DedupInvariant ==
  /\ [](\A c \in Cycles : Calling(c) => CurUri(c) \notin seen)
  /\ [][\A c \in Cycles :
         (Calling(c)' /\ pc'[c] # pc[c]) =>
            /\ \/ pc[c] = "sismember"
               \/ pc[c] \in {"thread", "writeFile"} /\ pc'[c] = "deliver"
            /\ log'[c] = log[c]
            /\ xformed'[c] = xformed[c]
            /\ CurUri(c) \notin seen]_vars

\* C1 witness: an entry was reached while its URI was in the seen-set and
\* was skipped.
C1_Witness ==
  \E c \in Cycles : \E i \in LogIdx(c) :
    log[c][i].ev = "skip" /\ log[c][i].uri \in seen

\* C2 (seen-set invariant), as claimed: every URI in the seen-set had a 204
\* response, and every URI that had a 204 response is in the seen-set, or
\* its sadd is the call the cycle is waiting on.
C2_SeenIffDelivered ==
  /\ \A u \in seen : ok204[u] > 0
  /\ \A u \in URIs : ok204[u] > 0 =>
        \/ u \in seen
        \/ \E c \in Cycles : pc[c] = "sadd" /\ log[c][Len(log[c])].uri = u

\* C3 (exactly-once forwarding), as claimed: no URI gets a second 204.
C3_AtMostOne204 == \A u \in URIs : ok204[u] <= 1

\* The URIs of the entries of a feed.
UrisOf(feed) == { feed[i].uri : i \in 1 .. Len(feed) }

\* Invocation c made a delivery call for u (answered, or failed).
Attempted(c, u) ==
  \E i \in LogIdx(c) : log[c][i].uri = u /\ log[c][i].ev \in {"ok", "rej", "err"}

\* C4 (failure leaves unseen), as claimed: once a cycle is over, no URI that
\* got a non-204 response in it is in the seen-set, and a URI that got a
\* non-204 response in an earlier cycle and is in this cycle's feed was
\* attempted again in this cycle.
C4_AsClaimed ==
  \A c \in Cycles : pc[c] \in {"done", "failed"} =>
    /\ \A i \in LogIdx(c) : log[c][i].ev = "rej" => log[c][i].uri \notin seen
    /\ \A u \in (rejected \ seen) \cap UrisOf(xformed[c]) : Attempted(c, u)

\* C4, amended: a non-204 response does not put the URI into the seen-set
\* (it is there afterwards only when a later entry of the same cycle for the
\* same URI got a 204, and the sadd is only ever issued after a 204); and a
\* cycle that runs to completion (not as a dry run) over a feed that
\* contains a URI that got a non-204 response in an earlier cycle and is
\* still not in the seen-set has attempted that URI again.
C4_FailureLeavesUnseen ==
  \A c \in Cycles :
    /\ \A i \in LogIdx(c) :
          (log[c][i].ev = "rej" /\ log[c][i].uri \in seen) =>
             \E j \in LogIdx(c) :
               j > i /\ log[c][j] = [uri |-> log[c][i].uri, ev |-> "ok"]
    /\ pc[c] = "sadd" => log[c][Len(log[c])].ev = "ok"
    /\ (pc[c] = "done" /\ ~noProcessing) =>
          \A u \in (rejected \ seen) \cap UrisOf(xformed[c]) : Attempted(c, u)

\* C4 witness: a URI that got a non-204 response in an earlier cycle is
\* attempted again, in a cycle that runs to completion.
C4_Witness ==
  \E c \in Cycles : \E u \in rejected :
    pc[c] = "done" /\ Attempted(c, u) /\ ok204[u] = 0

\* C5 (per-post failure isolation): the step that receives a non-204
\* response leaves the cycle running: it goes on to the membership check of
\* the next entry, or, after the last entry, completes normally; and a cycle
\* that completed normally has processed every entry of its feed.
C5_FailureIsolation ==
  /\ [](\A c \in Cycles : pc[c] = "done" => Len(log[c]) = Len(xformed[c]))
  /\ [][\A c \in Cycles :
         (/\ Len(log'[c]) = Len(log[c]) + 1
          /\ log'[c][Len(log'[c])].ev = "rej") =>
            \/ pc'[c] = "sismember" /\ Len(log'[c]) < Len(xformed'[c])
            \/ pc'[c] = "done" /\ Len(log'[c]) = Len(xformed'[c])]_vars

\* C5 witness: in a cycle that completed, an entry got a non-204 response
\* and the entry after it was then delivered with 204.
C5_Witness ==
  \E c \in Cycles : \E i \in LogIdx(c) :
    /\ pc[c] = "done"
    /\ i < Len(log[c])
    /\ log[c][i].ev = "rej"
    /\ log[c][i + 1].ev = "ok"

C7_SchedulerSurvives ==
  \A c \in Cycles : (pc[c] = "failed" /\ ~signalled) => mainPc = "awaiting"

\* main is awaiting the sleep timer of the cycle that just completed.
Sleeping ==
  /\ mainPc = "awaiting"
  /\ pc[cur] = "done"
  /\ timer[cur] = "pending"

\* C8 (shutdown is terminal): once shutdown() has run, main's loop is over
\* and no further cycle is started in this process; and a signal that
\* arrives during the sleep cancels the timer and ends the loop in that
\* very step.
C8_ShutdownTerminal ==
  /\ [](signalled => mainPc = "stopped")
  /\ [][signalled => cur' = cur]_vars
  /\ [][(Sleeping /\ signalled' /\ ~signalled) =>
          (timer'[cur] = "cleared" /\ mainPc' = "stopped")]_vars

\* C8 witness: a signal arrived during the sleep; the timer is cancelled and
\* the loop over.
C8_Witness ==
  /\ signalled
  /\ ~noProcessing
  /\ mainPc = "stopped"
  /\ \E c \in Cycles : timer[c] = "cleared"

\* C9 (shutdown does not interrupt a post), as claimed: a process that was
\* shut down ends with every URI that got a 204 in the seen-set.
C9_NoLost204 ==
  (signalled /\ Exited) => \A u \in URIs : ok204[u] > 0 => u \in seen

\* C10 (single cooperative timeline): at most one invocation of pollFeed is
\* in flight; a new one starts only when none is in flight and, unless it
\* is the first of the process, in the step in which the sleep timer of the
\* completed previous one fires.
C10_SingleTimeline ==
  /\ [](Cardinality({c \in Cycles : pc[c] \in InFlight}) <= 1)
  /\ [][cur' # cur =>
          /\ cur' = cur + 1
          /\ \A c \in Cycles : pc[c] \notin InFlight
          /\ \/ mainPc = "idle"
             \/ /\ pc[cur] = "done"
                /\ timer[cur] = "pending"
                /\ timer'[cur] = "fired"]_vars

\* C10 witness: a second cycle in flight, started when the timer of the
\* completed first one fired.
C10_Witness ==
  \E c \in Cycles :
    /\ c > 1
    /\ pc[c] \in InFlight
    /\ pc[c - 1] = "done"
    /\ timer[c - 1] = "fired"

\* C11 (eventual delivery), as claimed, in the form a finite run refutes:
\* while a post whose delivery was rejected in an earlier cycle is still
\* outside the seen-set and no shutdown was requested, the scheduler is
\* still running (a cycle in flight or asleep until the next one), so the
\* post will be attempted again -- whatever failed in the cycles before.
C11_EventualDelivery ==
  (rejected \ seen # {} /\ ~signalled) => mainPc \in {"idle", "awaiting"}

\* The pages received so far were all answered and not empty.
AllNonEmpty(got) == \A i \in 1 .. Len(got) : got[i].ok /\ got[i].n > 0

\* The items of the first k pages received, in order.
RECURSIVE PagesConcat(_, _)
PagesConcat(got, k) ==
  IF k = 0 THEN << >> ELSE PagesConcat(got, k - 1) \o PageFeed(k, got[k].n)

\* The sizes of the pages received.
GotSizes == [i \in 1 .. Len(pager.got) |-> pager.got[i].n]

\* C12 (pagination stop rule): every request asks for 100 items; the first
\* carries no cursor, each later one the cursor the previous page came with;
\* a further request is outstanding exactly as long as every page so far was
\* non-empty, whatever their number; the loop ends at the first empty page
\* and its result is the concatenation, in order, of the pages before it.
C12_PaginationStopRule ==
  pager # NoPager =>
    LET got == pager.got
        sent == pager.sent
        m == Len(got)
    IN  /\ \A i \in 1 .. Len(sent) :
             /\ sent[i].limit = PageLimit
             /\ sent[i].cursor = IF i = 1 THEN Undefined ELSE got[i - 1].cursor
        /\ pager.pc = "fetch" <=> AllNonEmpty(got)
        /\ pager.pc = "fetch" => Len(sent) = m + 1 /\ pager.allData = PagesConcat(got, m)
        /\ pager.pc = "done" =>
             /\ m > 0 /\ got[m].ok /\ got[m].n = 0
             /\ AllNonEmpty(SubSeq(got, 1, m - 1))
             /\ Len(sent) = m
             /\ pager.allData = PagesConcat(got, m - 1)

\* C12 witness: the loop ended at an empty fourth page, after three pages
\* that came with different cursors.
C12_Witness ==
  /\ pager # NoPager
  /\ pager.pc = "done"
  /\ Len(pager.got) = 4
  /\ pager.got[1].cursor # pager.got[2].cursor
  /\ Len(pager.allData) > PageLimit

\* C13 (short page), as claimed: once pages of 100, 100 and 42 items have
\* come in, 242 items are accumulated and the loop is over, three requests
\* having been issued.
C13_AsClaimed ==
  (pager # NoPager /\ GotSizes = << PageLimit, PageLimit, 42 >> /\ AllNonEmpty(pager.got)) =>
    /\ Len(pager.allData) = 242
    /\ pager.pc = "done"
    /\ Len(pager.sent) = 3

\* C13, amended: after pages of 100, 100 and 42 items, 242 items are
\* accumulated and a fourth request, with the cursor of the short page, is
\* outstanding; the loop ends when that request is answered by an empty
\* page, still with 242 items.
C13_StopsAtEmptyPage ==
  pager # NoPager =>
    /\ (GotSizes = << PageLimit, PageLimit, 42 >> /\ AllNonEmpty(pager.got)) =>
         /\ Len(pager.allData) = 242
         /\ pager.pc = "fetch"
         /\ Len(pager.sent) = 4
         /\ pager.sent[4].cursor = pager.got[3].cursor
    /\ (GotSizes = << PageLimit, PageLimit, 42, 0 >> /\ \A i \in 1 .. 4 : pager.got[i].ok) =>
         /\ Len(pager.allData) = 242
         /\ pager.pc = "done"
         /\ Len(pager.sent) = 4

\* C13 witness: pages of 100, 100, 42 and 0 items were received.
C13_Witness ==
  /\ pager # NoPager
  /\ pager.pc = "done"
  /\ GotSizes = << PageLimit, PageLimit, 42, 0 >>
  /\ Len(pager.allData) = 242

\* The reply nodes of thread T that hang from the root by a chain of nodes
\* of the root's author.
RECURSIVE OnOwnChain(_, _)
OnOwnChain(T, i) ==
  i = 0 \/ (T.did[i] = T.did[0] /\ OnOwnChain(T, T.parent[i]))

OwnRecords(T) ==
  { [text |-> i, createdAt |-> T.at[i]] : i \in { j \in DOMAIN T.parent : OnOwnChain(T, j) } }

\* C14 (self-thread extraction), as claimed: processThread returns exactly
\* the records of the reply nodes that hang from the root by a chain of
\* nodes of the root's author, each once, in ascending createdAt order.
C14_SelfThread ==
  call.fn = "processThread" =>
    LET out == call.out IN
    /\ { out[i] : i \in 1 .. Len(out) } = OwnRecords(call.in)
    /\ Len(out) = Cardinality(OwnRecords(call.in))
    /\ \A i \in 1 .. Len(out) - 1 : out[i].createdAt <= out[i + 1].createdAt

\* The entry and the payload a call of transformSingle ended with.
Entry == call.out.value
Payload == call.payload[1]
Transformed == call.fn = "transformSingle" /\ call.out.ok

\* The images of the entry (none when embedImages is undefined).
EntryImages == IF Entry.embedImages = << >> THEN << >> ELSE Entry.embedImages[1]

QuoteOf(embed) ==
  IF "record" \in DOMAIN embed.record THEN embed.record.record ELSE embed.record

MediaAndQuote ==
  /\ call.fn = "transformSingle"
  /\ isFeedPost(call.in.post)
  /\ "embed" \in DOMAIN call.in.post
  /\ call.in.post.embed.type = View(RwmType)
  /\ "images" \in DOMAIN call.in.post.embed.media
  /\ "author" \in DOMAIN QuoteOf(call.in.post.embed)

\* The image URLs of the quoted post of the call.
QuotedImages ==
  LET q == QuoteOf(call.in.post.embed) IN
  IF "embeds" \in DOMAIN q THEN reduceEmbeds(q.embeds, << >>) ELSE << >>

\* C16 (quoted images are appended), as claimed: for a recordWithMedia post
\* with media images M whose quoted post has images Q, embedImages is M
\* followed by Q.
C16_QuotedImagesAppended ==
  MediaAndQuote =>
    /\ call.out.ok
    /\ EntryImages = fullsizes(call.in.post.embed.media.images) \o QuotedImages

\* The call was for a quote (of either shape) of a record that is gone.
QuoteNotFound ==
  /\ call.fn = "transformSingle"
  /\ isFeedPost(call.in.post)
  /\ "embed" \in DOMAIN call.in.post
  /\ call.in.post.embed.type \in {View(RecordType), View(RwmType)}
  /\ QuoteOf(call.in.post.embed) = ViewNotFound

\* C17 (notFound quote), as claimed: when the quoted record is marked
\* notFound, for either quote shape, transformSingle does not fail and
\* returns no images, no quoted block and no caption.
C17_NotFoundSkipsEmbed ==
  QuoteNotFound =>
    /\ call.out.ok
    /\ Entry.embedImages = << << >> >>
    /\ Entry.embedRecords = << >>
    /\ Entry.embedText = << >>

\* The accumulated feed of invocation c holds an item that is no feed post.
HasNonPost(c) == \E i \in 1 .. Len(allData[c]) : ~isFeedPost(allData[c][i])

\* C18 (abort before the delivery phase): while a cycle is fetching it has
\* processed no entry; a step taken meanwhile leaves the seen-set and the
\* delivery counts alone; a feed with an item that is no feed post never
\* gets past normalization; a cycle that fails there ends with no entry
\* processed and its accumulator dropped; and a cycle starts from an empty
\* accumulator.
C18_AbortBeforeDelivery ==
  /\ [](\A c \in Cycles : pc[c] = "fetch" => log[c] = << >> /\ xformed[c] = << >>)
  /\ [][\A c \in Cycles :
         /\ pc[c] = "fetch" =>
              /\ seen' = seen
              /\ ok204' = ok204
              /\ HasNonPost(c) => pc'[c] \in {"fetch", "failed"}
              /\ pc'[c] = "failed" =>
                   /\ log'[c] = << >>
                   /\ xformed'[c] = << >>
                   /\ allData'[c] = << >>
         /\ (pc[c] # "fetch" /\ pc'[c] = "fetch") => allData'[c] = << >>]_vars

\* C18 witness: a cycle failed before its delivery phase, after an earlier
\* cycle had delivered a post.
C18_Witness ==
  \E c \in Cycles :
    /\ pc[c] = "failed"
    /\ xformed[c] = << >>
    /\ ~signalled
    /\ seen # {}

\* C19 (thread fetch failure): the entry whose thread fetch failed is the
\* last one its cycle touched and the cycle has failed; the post is not in
\* the seen-set and got no 204 in the failing step; the posts delivered
\* with a 204 before it in that cycle are in the seen-set.
C19_ThreadFailureAborts ==
  /\ [](\A c \in Cycles : \A i \in LogIdx(c) :
          log[c][i].ev = "thr" =>
            /\ i = Len(log[c])
            /\ pc[c] \in {"failed", "none"}
            /\ log[c][i].uri \notin seen
            /\ \A j \in 1 .. i - 1 :
                 log[c][j].ev = "ok" => log[c][j].uri \in seen)
  /\ [][\A c \in Cycles :
         pc[c] = "thread" /\ pc'[c] # "thread" /\ log'[c] # log[c] =>
           /\ seen' = seen
           /\ ok204' = ok204]_vars

\* C19 witness: the thread fetch of the second entry failed after the first
\* had been delivered.
C19_Witness ==
  \E c \in Cycles :
    /\ Len(log[c]) = 2
    /\ log[c][1].ev = "ok"
    /\ log[c][2].ev = "thr"
    /\ log[c][1].uri \in seen

\* C20 (bounded thread fetch): a thread request is outstanding only for an
\* entry that is not in the seen-set and has replies; its depth is the
\* smaller of the reply count and THREAD_MAX_FETCH_DEPTH, hence between 1
\* and THREAD_MAX_FETCH_DEPTH.
C20_BoundedThreadFetch ==
  \A c \in Cycles :
    pc[c] = "thread" =>
      LET entry == xformed[c][Len(log[c]) + 1]
          depth == threadRequest(entry).depth
      IN  /\ entry.uri \notin seen
          /\ entry.replyCount > 0
          /\ threadRequest(entry).uri = entry.uri
          /\ depth <= entry.replyCount
          /\ depth <= THREAD_MAX_FETCH_DEPTH
          /\ depth = entry.replyCount \/ depth = THREAD_MAX_FETCH_DEPTH
          /\ 1 <= depth

\* C20 witness: a thread request is outstanding for a post with more
\* replies than THREAD_MAX_FETCH_DEPTH.
C20_Witness ==
  \E c \in Cycles :
    /\ pc[c] = "thread"
    /\ xformed[c][Len(log[c]) + 1].replyCount > THREAD_MAX_FETCH_DEPTH

====
